---- MODULE Spec2Model ----
(***************************************************************************)
(* Model of wasm-pkg: the command line front end (src/main.rs) and the     *)
(* dependency configuration library (crates/wasm-pkg-deps).                *)
(*                                                                         *)
(* Spec        one invocation of the binary: argument parsing, then the    *)
(*             push, pull or deps-update handler, step by step.            *)
(* SpecConfig  the configuration library: building, saving and loading a   *)
(*             Config, and deriving registry clients from it.              *)
(*                                                                         *)
(* Text whose characters matter (repository paths, the --insecure value)   *)
(* is a sequence of one-character strings; other text is a TLA+ string.    *)
(* Option<T> is a sequence of length at most one.                          *)
(***************************************************************************)
EXTENDS Integers, Sequences, FiniteSets, TLC

VARIABLES
    argv,            \* the command line and environment of the invocation
    pc,              \* position of main / the running handler
    insecure,        \* Common::insecure as parsed
    client,          \* ClientConfig::protocol of the client built by get_client
    auth,            \* Option<RegistryAuth> produced by try_into
    data,            \* layers returned by client.pull
    output_path,     \* Option<PathBuf> chosen by handle_pull
    net,             \* registry calls made so far
    reads,           \* files read so far
    writes,          \* tokio::fs::write calls made so far
    stdout,          \* lines printed so far
    result,          \* outcome of the invocation
    cfg,             \* a Config value held by the library's caller
    doc,             \* Option<document>: the configuration file contents
    loaded,          \* Option<load result>: what reading the file produced
    origin,          \* where loaded came from
    rc,              \* Option<RegistryConfig> last passed to get_client
    conn,            \* Option<(protocol, auth)> returned by get_client
    deps             \* Option<DepsClient>

cliVars == <<argv, pc, insecure, client, auth, data, output_path, net, reads,
             writes, stdout, result>>
cfgVars == <<cfg, doc, loaded, origin, rc, conn, deps>>
vars == <<argv, pc, insecure, client, auth, data, output_path, net, reads,
          writes, stdout, result, cfg, doc, loaded, origin, rc, conn, deps>>

----------------------------------------------------------------------------
(* Bounds *)

MaxRepoLen == 3
MaxInsecureLen == 2
MaxLayers == 2
MaxNamespaces == 1

----------------------------------------------------------------------------
(* Option and text helpers *)

None == <<>>
Some(x) == <<x>>
IsSome(o) == o # <<>>
IsNone(o) == o = <<>>
Unwrap(o) == o[1]

SeqsUpTo(S, n) == UNION {[1..k -> S] : k \in 0..n}

\* str::replace(from, to) for a one-character pattern
replace(s, from, to) == [i \in 1..Len(s) |-> IF s[i] = from THEN to ELSE s[i]]

\* splitting of one raw value at the value delimiter: a value without the
\* delimiter (the empty value included) is kept as one piece
RECURSIVE split(_, _)
split(s, d) ==
    IF \A i \in 1..Len(s) : s[i] # d
    THEN <<s>>
    ELSE LET i == CHOOSE k \in 1..Len(s) :
                      s[k] = d /\ \A j \in 1..(k - 1) : s[j] # d
         IN  <<SubSeq(s, 1, i - 1)>> \o split(SubSeq(s, i + 1, Len(s)), d)

----------------------------------------------------------------------------
(* Inputs of one invocation *)

Usernames == {"alice"}
Passwords == {"secret"}
Blobs == {"b1", "b2"}
RepoChars == {"m", "r", "/"}
HostChars == {"h", ","}

\* repository paths a Reference can hold: non-empty components joined by '/'
IsRepository(s) ==
    /\ Len(s) >= 1
    /\ s[1] # "/"
    /\ s[Len(s)] # "/"
    /\ \A i \in 1..(Len(s) - 1) : ~(s[i] = "/" /\ s[i + 1] = "/")

Repositories == {s \in SeqsUpTo(RepoChars, MaxRepoLen) : IsRepository(s)}

References ==
    [registry : {"docker.io", "ghcr.io"}, repository : Repositories,
     tag : {"1.0.0", "latest"}]

NoReference == [registry |-> "", repository |-> <<>>, tag |-> ""]

AuthArgs ==
    [username : {None} \cup {Some(u) : u \in Usernames},
     password : {None} \cup {Some(p) : p \in Passwords}]

CommonArgs ==
    [insecureFlag : {None} \cup {Some(s) : s \in SeqsUpTo(HostChars, MaxInsecureLen)},
     insecureEnv : {None, Some(<<"h">>)}]

NoAuthArgs == [username |-> None, password |-> None]
NoCommonArgs == [insecureFlag |-> None, insecureEnv |-> None]

PushArgv ==
    {[cmd |-> "push", auth |-> a, common |-> c, reference |-> r,
      author |-> au, output |-> None, config |-> None, cache_dir |-> None] :
        a \in AuthArgs, c \in CommonArgs, r \in References,
        au \in {None, Some("bob")}}

PullArgv ==
    {[cmd |-> "pull", auth |-> a, common |-> c, reference |-> r,
      author |-> None, output |-> o, config |-> None, cache_dir |-> None] :
        a \in AuthArgs, c \in CommonArgs, r \in References,
        o \in {None, Some(<<"o", "/", "x">>)}}

DepsArgv ==
    {[cmd |-> "deps", auth |-> NoAuthArgs, common |-> NoCommonArgs,
      reference |-> NoReference, author |-> None, output |-> None,
      config |-> c, cache_dir |-> d] :
        c \in {None, Some("config.toml"), Some("missing.toml")},
        d \in {None, Some("cache"), Some("missing")}}

Argv == PushArgv \cup PullArgv \cup DepsArgv

----------------------------------------------------------------------------
(* Pure functions of src/main.rs *)

\* username requires password and password requires username
AuthArgsAccepted(a) == IsSome(a.username) <=> IsSome(a.password)

\* Common::insecure: the flag, else the environment variable, else the
\* default value "", split at ','
InsecureRaw(c) ==
    IF IsSome(c.insecureFlag) THEN Unwrap(c.insecureFlag)
    ELSE IF IsSome(c.insecureEnv) THEN Unwrap(c.insecureEnv)
    ELSE <<>>

ParseInsecure(c) == split(InsecureRaw(c), ",")

\* try_from with the two credentials passed to Basic in the wrong order
try_from_swapped(a) ==
    IF IsSome(a.username) /\ IsSome(a.password)
    THEN [ok |-> TRUE,
          value |-> [kind |-> "Basic", username |-> Unwrap(a.password),
                     password |-> Unwrap(a.username)]]
    ELSE IF IsNone(a.username) /\ IsNone(a.password)
    THEN [ok |-> TRUE, value |-> [kind |-> "Anonymous"]]
    ELSE [ok |-> FALSE, error |-> "Must provide both a username and password"]

\* impl TryFrom<Auth> for RegistryAuth
try_from(a) ==
    IF IsSome(a.username) /\ IsSome(a.password)
    THEN [ok |-> TRUE,
          value |-> [kind |-> "Basic", username |-> Unwrap(a.username),
                     password |-> Unwrap(a.password)]]
    ELSE IF IsNone(a.username) /\ IsNone(a.password)
    THEN [ok |-> TRUE, value |-> [kind |-> "Anonymous"]]
    ELSE [ok |-> FALSE, error |-> "Must provide both a username and password"]

\* fn get_client(common: Common) -> WasmClient
get_client(ins) ==
    IF ins = <<>>
    THEN [protocol |-> "Https", hosts |-> <<>>]
    ELSE [protocol |-> "HttpsExcept", hosts |-> ins]

\* the default output path without the replacement of '/'
DefaultOutputPath_noreplace(ref) == ref.repository \o <<".wasm">>

\* the default output path of handle_pull
DefaultOutputPath(ref) == replace(ref.repository, "/", "_") \o <<".wasm">>

OutputPath(a) ==
    IF IsSome(a.output) THEN Unwrap(a.output) ELSE DefaultOutputPath(a.reference)

\* the first layer with unwrap_or_default in place of ok_or_else
FirstLayer_or_default(layers) ==
    IF Len(layers) = 0
    THEN [ok |-> TRUE, value |-> ""]
    ELSE [ok |-> TRUE, value |-> layers[1]]

\* data.layers.into_iter().next().ok_or_else(..)
FirstLayer(layers) ==
    IF Len(layers) = 0
    THEN [ok |-> FALSE, error |-> "No layers found"]
    ELSE [ok |-> TRUE, value |-> layers[1]]

----------------------------------------------------------------------------
(* The invocation *)

NoClient == [protocol |-> "none", hosts |-> <<>>]

InitCli ==
    /\ argv \in Argv
    /\ pc = "parse"
    /\ insecure = <<>>
    /\ client = NoClient
    /\ auth = None
    /\ data = None
    /\ output_path = None
    /\ net = <<>>
    /\ reads = <<>>
    /\ writes = <<>>
    /\ stdout = <<>>
    /\ result = "running"

Fail(msg) == pc' = "done" /\ result' = msg

\* App::parse() and the dispatch of main
Parse ==
    /\ pc = "parse"
    /\ IF ~AuthArgsAccepted(argv.auth)
       THEN /\ Fail("usage error")
            /\ UNCHANGED insecure
       ELSE /\ insecure' = IF argv.cmd = "deps" THEN <<>> ELSE ParseInsecure(argv.common)
            /\ pc' = CASE argv.cmd = "push" -> "push_get_client"
                       [] argv.cmd = "pull" -> "pull_get_client"
                       [] OTHER -> "deps_update"
            /\ UNCHANGED result
    /\ UNCHANGED <<argv, client, auth, data, output_path, net, reads, writes, stdout>>
    /\ UNCHANGED cfgVars

PushGetClient ==
    /\ pc = "push_get_client"
    /\ client' = get_client(insecure)
    /\ pc' = "push_from_component"
    /\ UNCHANGED <<argv, insecure, auth, data, output_path, net, reads, writes,
                   stdout, result>>
    /\ UNCHANGED cfgVars

\* WasmConfig::from_component(&args.file, args.author): reads the file
PushFromComponent ==
    /\ pc = "push_from_component"
    /\ reads' = Append(reads, "component.wasm")
    /\ \E ok \in BOOLEAN :
          IF ok THEN pc' = "push_try_into" /\ UNCHANGED result
                ELSE Fail("Unable to parse component")
    /\ UNCHANGED <<argv, insecure, client, auth, data, output_path, net, writes, stdout>>
    /\ UNCHANGED cfgVars

PushTryInto ==
    /\ pc = "push_try_into"
    /\ LET r == try_from(argv.auth)
       IN  IF r.ok
           THEN auth' = Some(r.value) /\ pc' = "push_client_push" /\ UNCHANGED result
           ELSE Fail(r.error) /\ UNCHANGED auth
    /\ UNCHANGED <<argv, insecure, client, data, output_path, net, reads, writes, stdout>>
    /\ UNCHANGED cfgVars

PushClientPush ==
    /\ pc = "push_client_push"
    /\ net' = Append(net, [op |-> "push", reference |-> argv.reference,
                           auth |-> Unwrap(auth)])
    /\ \E ok \in BOOLEAN :
          IF ok THEN pc' = "push_println" /\ UNCHANGED result
                ELSE Fail("Unable to push image")
    /\ UNCHANGED <<argv, insecure, client, auth, data, output_path, reads, writes, stdout>>
    /\ UNCHANGED cfgVars

PushPrintln ==
    /\ pc = "push_println"
    /\ stdout' = Append(stdout, [msg |-> "Pushed", reference |-> argv.reference,
                                 path |-> None])
    /\ pc' = "done"
    /\ result' = "ok"
    /\ UNCHANGED <<argv, insecure, client, auth, data, output_path, net, reads, writes>>
    /\ UNCHANGED cfgVars

PullGetClient ==
    /\ pc = "pull_get_client"
    /\ client' = get_client(insecure)
    /\ pc' = "pull_try_into"
    /\ UNCHANGED <<argv, insecure, auth, data, output_path, net, reads, writes,
                   stdout, result>>
    /\ UNCHANGED cfgVars

PullTryInto ==
    /\ pc = "pull_try_into"
    /\ LET r == try_from(argv.auth)
       IN  IF r.ok
           THEN auth' = Some(r.value) /\ pc' = "pull_client_pull" /\ UNCHANGED result
           ELSE Fail(r.error) /\ UNCHANGED auth
    /\ UNCHANGED <<argv, insecure, client, data, output_path, net, reads, writes, stdout>>
    /\ UNCHANGED cfgVars

\* client.pull called again after a failure
PullClientPull_retry ==
    /\ pc = "pull_client_pull"
    /\ net' = Append(net, [op |-> "pull", reference |-> argv.reference,
                           auth |-> Unwrap(auth)])
    /\ \/ UNCHANGED <<pc, result, data>>
       \/ \E layers \in SeqsUpTo(Blobs, MaxLayers) :
             data' = Some(layers) /\ pc' = "pull_output_path" /\ UNCHANGED result
    /\ UNCHANGED <<argv, insecure, client, auth, output_path, reads, writes, stdout>>
    /\ UNCHANGED cfgVars

PullClientPull ==
    /\ pc = "pull_client_pull"
    /\ net' = Append(net, [op |-> "pull", reference |-> argv.reference,
                           auth |-> Unwrap(auth)])
    /\ \/ Fail("Unable to pull image") /\ UNCHANGED data
       \/ \E layers \in SeqsUpTo(Blobs, MaxLayers) :
             data' = Some(layers) /\ pc' = "pull_output_path" /\ UNCHANGED result
    /\ UNCHANGED <<argv, insecure, client, auth, output_path, reads, writes, stdout>>
    /\ UNCHANGED cfgVars

PullOutputPath ==
    /\ pc = "pull_output_path"
    /\ output_path' = Some(OutputPath(argv))
    /\ pc' = "pull_fs_write"
    /\ UNCHANGED <<argv, insecure, client, auth, data, net, reads, writes, stdout, result>>
    /\ UNCHANGED cfgVars

\* the argument of tokio::fs::write is evaluated first; ? leaves before the call
PullFsWrite ==
    /\ pc = "pull_fs_write"
    /\ LET l == FirstLayer(Unwrap(data))
       IN  IF ~l.ok
           THEN Fail(l.error) /\ UNCHANGED writes
           ELSE /\ writes' = Append(writes, [path |-> Unwrap(output_path),
                                             bytes |-> l.value])
                /\ \E ok \in BOOLEAN :
                      IF ok THEN pc' = "pull_println" /\ UNCHANGED result
                            ELSE Fail("Unable to write file")
    /\ UNCHANGED <<argv, insecure, client, auth, data, output_path, net, reads, stdout>>
    /\ UNCHANGED cfgVars

PullPrintln ==
    /\ pc = "pull_println"
    /\ stdout' = Append(stdout, [msg |-> "Successfully wrote",
                                 reference |-> argv.reference, path |-> output_path])
    /\ pc' = "done"
    /\ result' = "ok"
    /\ UNCHANGED <<argv, insecure, client, auth, data, output_path, net, reads, writes>>
    /\ UNCHANGED cfgVars

\* handle_deps_update reading the configuration file it was given
handle_deps_update_load ==
    /\ pc = "deps_update"
    /\ pc' = "done"
    /\ reads' = IF IsSome(argv.config) THEN Append(reads, Unwrap(argv.config)) ELSE reads
    /\ result' = IF argv.config = Some("missing.toml")
                 THEN "Unable to read config" ELSE "ok"
    /\ UNCHANGED <<argv, insecure, client, auth, data, output_path, net,
                   writes, stdout>>
    /\ UNCHANGED cfgVars

\* async fn handle_deps_update(args) -> Ok(())
handle_deps_update ==
    /\ pc = "deps_update"
    /\ pc' = "done"
    /\ result' = "ok"
    /\ UNCHANGED <<argv, insecure, client, auth, data, output_path, net, reads,
                   writes, stdout>>
    /\ UNCHANGED cfgVars

----------------------------------------------------------------------------
(* crates/wasm-pkg-deps/src/config.rs *)

DEFAULT_REGISTRY == "ghcr.io"
DEFAULT_REGISTRY_SUBPATH == "WebAssembly"

\* impl Default for RegistryConfig
RegistryConfigDefault ==
    [registry |-> DEFAULT_REGISTRY,
     protocol |-> None,
     registry_subpath |-> Some(DEFAULT_REGISTRY_SUBPATH),
     auth |-> None]

\* impl Default for Config
ConfigDefault ==
    [default_namespace |-> "wasi",
     default_config |-> RegistryConfigDefault,
     namespaces |-> <<>>]

\* <String as Default>::default(), used by #[serde(default)] on a String field
StringDefault == ""

Protocols == {"http", "https", "HTTP", "Https", "", "ftp"}

Auths == [username : Usernames, password : Passwords]

RegistryConfigs ==
    [registry : {DEFAULT_REGISTRY, "localhost:5000"},
     protocol : {None} \cup {Some(p) : p \in Protocols},
     registry_subpath : {None, Some(DEFAULT_REGISTRY_SUBPATH)},
     auth : {None} \cup {Some(a) : a \in Auths}]

NamespaceKeys == {"wasi", "acme"}

NamespaceConfigs ==
    {RegistryConfigDefault,
     [registry |-> "localhost:5000", protocol |-> Some("http"),
      registry_subpath |-> None,
      auth |-> Some([username |-> "alice", password |-> "secret"])]}

Configs ==
    [default_namespace : {"wasi", "", "acme"},
     default_config : RegistryConfigs,
     namespaces : UNION {[K -> NamespaceConfigs] :
                           K \in {S \in SUBSET NamespaceKeys :
                                    Cardinality(S) <= MaxNamespaces}}]

\* get_client matching the protocol without regard to case
RegistryConfig_get_client_nocase(r) ==
    [protocol |-> IF r.protocol \in {Some("http"), Some("HTTP")} THEN "Http"
                  ELSE "Https",
     auth |-> IF IsSome(r.auth)
              THEN [kind |-> "Basic", username |-> Unwrap(r.auth).username,
                    password |-> Unwrap(r.auth).password]
              ELSE [kind |-> "Anonymous"]]

\* RegistryConfig::get_client
RegistryConfig_get_client(r) ==
    [protocol |-> IF r.protocol = Some("http") THEN "Http"
                  ELSE IF r.protocol = Some("https") THEN "Https"
                  ELSE IF IsSome(r.protocol) THEN "Https"
                  ELSE "Https",
     auth |-> IF IsSome(r.auth)
              THEN [kind |-> "Basic", username |-> Unwrap(r.auth).username,
                    password |-> Unwrap(r.auth).password]
              ELSE [kind |-> "Anonymous"]]

\* DepsClient::new
DepsClient_new(c) ==
    LET p == RegistryConfig_get_client(c.default_config)
    IN  [default_client |-> p.protocol, default_auth |-> p.auth, config |-> c]

Restrict(f, K) == [k \in (DOMAIN f) \cap K |-> f[k]]

\* #[derive(Serialize)] #[serde(rename_all = "camelCase")] struct Auth
SerializeAuth(a) == [username |-> a.username, password |-> a.password]

\* #[derive(Serialize)] struct RegistryConfig: a table in which a field that
\* is None has no key
SerializeRegistryConfig(r) ==
    LET keys == {"registry"}
                  \cup (IF IsSome(r.protocol) THEN {"protocol"} ELSE {})
                  \cup (IF IsSome(r.registry_subpath) THEN {"registrySubpath"} ELSE {})
                  \cup (IF IsSome(r.auth) THEN {"auth"} ELSE {})
    IN  [k \in keys |->
            CASE k = "registry" -> r.registry
              [] k = "protocol" -> Unwrap(r.protocol)
              [] k = "registrySubpath" -> Unwrap(r.registry_subpath)
              [] k = "auth" -> SerializeAuth(Unwrap(r.auth))]

\* #[derive(Serialize)] struct Config
SerializeConfig(c) ==
    [defaultNamespace |-> c.default_namespace,
     defaultConfig |-> SerializeRegistryConfig(c.default_config),
     namespaces |-> [k \in DOMAIN c.namespaces |->
                        SerializeRegistryConfig(c.namespaces[k])]]

\* #[derive(Deserialize)] struct Auth: both fields are required
DeserializeAuth(d) ==
    IF "username" \notin DOMAIN d THEN [ok |-> FALSE, error |-> "missing field username"]
    ELSE IF "password" \notin DOMAIN d THEN [ok |-> FALSE, error |-> "missing field password"]
    ELSE [ok |-> TRUE, value |-> [username |-> d.username, password |-> d.password]]

\* deserialization that fills an absent protocol with "https"
DeserializeRegistryConfig_https(d) ==
    IF "registry" \notin DOMAIN d
    THEN [ok |-> FALSE, error |-> "missing field registry"]
    ELSE IF "auth" \in DOMAIN d /\ ~DeserializeAuth(d.auth).ok
    THEN [ok |-> FALSE, error |-> DeserializeAuth(d.auth).error]
    ELSE [ok |-> TRUE,
          value |->
            [registry |-> d.registry,
             protocol |-> IF "protocol" \in DOMAIN d THEN Some(d.protocol)
                          ELSE Some("https"),
             registry_subpath |-> IF "registrySubpath" \in DOMAIN d
                                  THEN Some(d.registrySubpath) ELSE None,
             auth |-> IF "auth" \in DOMAIN d
                      THEN Some(DeserializeAuth(d.auth).value) ELSE None]]

\* #[derive(Deserialize)] struct RegistryConfig: registry is required, an
\* absent Option field is None
DeserializeRegistryConfig(d) ==
    IF "registry" \notin DOMAIN d
    THEN [ok |-> FALSE, error |-> "missing field registry"]
    ELSE IF "auth" \in DOMAIN d /\ ~DeserializeAuth(d.auth).ok
    THEN [ok |-> FALSE, error |-> DeserializeAuth(d.auth).error]
    ELSE [ok |-> TRUE,
          value |->
            [registry |-> d.registry,
             protocol |-> IF "protocol" \in DOMAIN d THEN Some(d.protocol) ELSE None,
             registry_subpath |-> IF "registrySubpath" \in DOMAIN d
                                  THEN Some(d.registrySubpath) ELSE None,
             auth |-> IF "auth" \in DOMAIN d
                      THEN Some(DeserializeAuth(d.auth).value) ELSE None]]

\* #[derive(Deserialize)] struct Config: each field carries #[serde(default)],
\* the Default of the own type of the field
DeserializeConfig(d) ==
    LET dc == IF "defaultConfig" \in DOMAIN d
              THEN DeserializeRegistryConfig(d.defaultConfig)
              ELSE [ok |-> TRUE, value |-> RegistryConfigDefault]
        nsd == IF "namespaces" \in DOMAIN d THEN d.namespaces ELSE <<>>
        bad == {k \in DOMAIN nsd : ~DeserializeRegistryConfig(nsd[k]).ok}
    IN  IF ~dc.ok THEN [ok |-> FALSE, error |-> dc.error]
        ELSE IF bad # {}
        THEN [ok |-> FALSE,
              error |-> DeserializeRegistryConfig(nsd[CHOOSE k \in bad : TRUE]).error]
        ELSE [ok |-> TRUE,
              value |->
                [default_namespace |-> IF "defaultNamespace" \in DOMAIN d
                                       THEN d.defaultNamespace ELSE StringDefault,
                 default_config |-> dc.value,
                 namespaces |-> [k \in DOMAIN nsd |->
                                    DeserializeRegistryConfig(nsd[k]).value]]]

\* configuration files a user may write for the values of c: any of the
\* top-level keys may be left out, and so may the registry of defaultConfig
ConfigFiles(c) ==
    LET full == SerializeConfig(c)
    IN  {Restrict(full, K) : K \in SUBSET {"defaultNamespace", "defaultConfig", "namespaces"}}
          \cup {[full EXCEPT !.defaultConfig =
                    Restrict(@, (DOMAIN @) \ {"registry"})]}

\* the RegistryConfig values a Config holds
ConfigEntries(c) == {c.default_config} \cup {c.namespaces[k] : k \in DOMAIN c.namespaces}

InitLib ==
    /\ cfg \in Configs
    /\ doc = None
    /\ loaded = None
    /\ origin = "init"
    /\ rc = None
    /\ conn = None
    /\ deps = None

\* Config::default()
Config_default ==
    /\ origin = "init"
    /\ loaded' = Some([ok |-> TRUE, value |-> ConfigDefault])
    /\ origin' = "default"
    /\ UNCHANGED <<cfg, doc, rc, conn, deps>>
    /\ UNCHANGED cliVars

\* reading a configuration file written by the user
LoadFile ==
    /\ origin = "init"
    /\ \E d \in ConfigFiles(cfg) :
          /\ doc' = Some(d)
          /\ loaded' = Some(DeserializeConfig(d))
    /\ origin' = "file"
    /\ UNCHANGED <<cfg, rc, conn, deps>>
    /\ UNCHANGED cliVars

\* writing cfg to its file representation
Save ==
    /\ origin = "init"
    /\ doc' = Some(SerializeConfig(cfg))
    /\ origin' = "saved"
    /\ UNCHANGED <<cfg, loaded, rc, conn, deps>>
    /\ UNCHANGED cliVars

\* reading back the file written by Save
Reload ==
    /\ origin = "saved"
    /\ loaded' = Some(DeserializeConfig(Unwrap(doc)))
    /\ origin' = "roundtrip"
    /\ UNCHANGED <<cfg, doc, rc, conn, deps>>
    /\ UNCHANGED cliVars

GetClient ==
    /\ origin = "init"
    /\ \E r \in ConfigEntries(cfg) :
          /\ rc' = Some(r)
          /\ conn' = Some(RegistryConfig_get_client(r))
    /\ origin' = "client"
    /\ UNCHANGED <<cfg, doc, loaded, deps>>
    /\ UNCHANGED cliVars

NewDepsClient ==
    /\ origin = "init"
    /\ deps' = Some(DepsClient_new(cfg))
    /\ origin' = "deps"
    /\ UNCHANGED <<cfg, doc, loaded, rc, conn>>
    /\ UNCHANGED cliVars

----------------------------------------------------------------------------
(* Specifications *)

IdleLib ==
    /\ cfg = ConfigDefault
    /\ doc = None
    /\ loaded = None
    /\ origin = "idle"
    /\ rc = None
    /\ conn = None
    /\ deps = None

IdleCli ==
    /\ argv = CHOOSE a \in DepsArgv : a.config = None /\ a.cache_dir = None
    /\ pc = "idle"
    /\ insecure = <<>>
    /\ client = NoClient
    /\ auth = None
    /\ data = None
    /\ output_path = None
    /\ net = <<>>
    /\ reads = <<>>
    /\ writes = <<>>
    /\ stdout = <<>>
    /\ result = "running"

Init == InitCli /\ IdleLib

Next ==
    \/ Parse
    \/ PushGetClient
    \/ PushFromComponent
    \/ PushTryInto
    \/ PushClientPush
    \/ PushPrintln
    \/ PullGetClient
    \/ PullTryInto
    \/ PullClientPull
    \/ PullOutputPath
    \/ PullFsWrite
    \/ PullPrintln
    \/ handle_deps_update

Spec == Init /\ [][Next]_vars

InitConfig == IdleCli /\ InitLib

NextConfig ==
    \/ Config_default
    \/ LoadFile
    \/ Save
    \/ Reload
    \/ GetClient
    \/ NewDepsClient

SpecConfig == InitConfig /\ [][NextConfig]_vars

TypeOK ==
    /\ pc \in {"idle", "parse", "push_get_client", "push_from_component",
               "push_try_into", "push_client_push", "push_println",
               "pull_get_client", "pull_try_into", "pull_client_pull",
               "pull_output_path", "pull_fs_write", "pull_println",
               "deps_update", "done"}
    /\ Len(net) <= 1
    /\ Len(writes) <= 1

----------------------------------------------------------------------------
(* Properties *)

Both(a) == IsSome(a.username) /\ IsSome(a.password)
Neither(a) == IsNone(a.username) /\ IsNone(a.password)
Partial(a) == ~Both(a) /\ ~Neither(a)
Failed == result \notin {"running", "ok"}

\* C1: RegistryConfig::get_client selects the plaintext transport exactly
\* when protocol is the string "http"; for "https", for an absent protocol and
\* for every other string it selects the encrypted transport, and what it
\* returns is always a client, never an error.
C1_ProtocolSelection ==
    origin = "client" =>
        LET r == Unwrap(rc)
            c == Unwrap(conn)
        IN  /\ c.protocol \in {"Http", "Https"}
            /\ (c.protocol = "Http") <=> (IsSome(r.protocol) /\ Unwrap(r.protocol) = "http")
            /\ (IsNone(r.protocol) \/ Unwrap(r.protocol) # "http") => c.protocol = "Https"

C1_Witness ==
    /\ origin = "client"
    /\ Unwrap(rc).protocol = Some("HTTP")
    /\ Unwrap(conn).protocol = "Https"

\* C3: with exactly one of username and password supplied the invocation
\* makes no registry call and does not succeed; every registry call carries
\* Basic(username, password) when both were supplied and Anonymous when
\* neither was.
C3_Credentials ==
    /\ Partial(argv.auth) =>
          /\ net = <<>>
          /\ result # "ok"
          /\ pc = "done" => Failed
    /\ \A i \in 1..Len(net) :
          /\ Both(argv.auth) =>
                net[i].auth = [kind |-> "Basic",
                               username |-> Unwrap(argv.auth.username),
                               password |-> Unwrap(argv.auth.password)]
          /\ Neither(argv.auth) => net[i].auth = [kind |-> "Anonymous"]

C3_Witness ==
    /\ Partial(argv.auth)
    /\ argv.cmd \in {"push", "pull"}
    /\ pc = "done"
    /\ Failed
    /\ net = <<>>

\* C4: a pull whose registry call returned zero layers writes no file and
\* prints nothing, and it ends with the error "No layers found".
C4_NoLayers ==
    (argv.cmd = "pull" /\ data = Some(<<>>)) =>
        /\ writes = <<>>
        /\ stdout = <<>>
        /\ result # "ok"
        /\ pc = "done" => result = "No layers found"

C4_Witness ==
    /\ argv.cmd = "pull"
    /\ data = Some(<<>>)
    /\ pc = "done"
    /\ result = "No layers found"
    /\ Len(net) = 1

\* C5: a successful pull wrote exactly once, the bytes of the first layer,
\* to the -o path when given and otherwise to the repository path with every
\* '/' replaced by '_' followed by ".wasm" (m/r gives m_r.wasm), whatever the
\* registry host and the tag.
C5_OutputFile ==
    (argv.cmd = "pull" /\ result = "ok") =>
        /\ Len(writes) = 1
        /\ writes[1].bytes = Unwrap(data)[1]
        /\ IsSome(argv.output) => writes[1].path = Unwrap(argv.output)
        /\ IsNone(argv.output) =>
              LET repo == argv.reference.repository
                  p == writes[1].path
              IN  /\ Len(p) = Len(repo) + 1
                  /\ p[Len(p)] = ".wasm"
                  /\ \A i \in 1..Len(repo) :
                        p[i] = IF repo[i] = "/" THEN "_" ELSE repo[i]
                  /\ repo = <<"m", "/", "r">> => p = <<"m", "_", "r", ".wasm">>

C5_Witness ==
    /\ argv.cmd = "pull"
    /\ result = "ok"
    /\ IsNone(argv.output)
    /\ argv.reference.repository = <<"m", "/", "r">>
    /\ Len(Unwrap(data)) = 2
    /\ Unwrap(data)[1] # Unwrap(data)[2]
    /\ writes[1].path = <<"m", "_", "r", ".wasm">>

C6_Inv ==
    /\ Len(net) <= 1
    /\ Len(reads) <= 1
    /\ Len(writes) <= 1
    /\ Len(stdout) <= 1
    /\ Failed => pc = "done" /\ stdout = <<>>
    /\ result \in {"usage error", "Unable to parse component",
                   "Must provide both a username and password"} =>
          net = <<>> /\ writes = <<>>
    /\ result \in {"Unable to push image", "Unable to pull image",
                   "No layers found"} => writes = <<>>
    /\ stdout # <<>> =>
          /\ result = "ok"
          /\ IsSome(auth)
          /\ Len(net) = 1
          /\ argv.cmd = "push" =>
                /\ Len(reads) = 1
                /\ stdout[1].msg = "Pushed"
                /\ stdout[1].reference = argv.reference
          /\ argv.cmd = "pull" =>
                /\ Len(Unwrap(data)) >= 1
                /\ Len(writes) = 1
                /\ stdout[1].msg = "Successfully wrote"
                /\ stdout[1].reference = argv.reference

\* C6: every failure is terminal and nothing is retried: an invocation makes
\* at most one registry call, a failed step is followed by no registry call,
\* no file write and no success line, the success line is printed only after
\* every preceding step succeeded, and a finished invocation does nothing
\* more.
C6_NoRetry ==
    /\ []C6_Inv
    /\ [][pc = "done" => UNCHANGED <<net, reads, writes, stdout, result, pc>>]_vars
    /\ [][Len(net') >= Len(net) /\ (Failed => net' = net /\ writes' = writes)]_vars

C6_Witness ==
    /\ argv.cmd = "pull"
    /\ result = "Unable to write file"
    /\ Len(net) = 1
    /\ Len(writes) = 1
    /\ stdout = <<>>
    /\ pc = "done"

\* C7: a Config built by Config::default(), or loaded from a file that omits
\* defaultNamespace / defaultConfig, has defaultNamespace "wasi" and the
\* default RegistryConfig (ghcr.io, WebAssembly, no protocol, no auth).
C7_Defaults ==
    (IsSome(loaded) /\ Unwrap(loaded).ok) =>
        LET c == Unwrap(loaded).value
        IN  /\ origin = "default" =>
                  /\ c.default_namespace = "wasi"
                  /\ c.default_config = [registry |-> "ghcr.io", protocol |-> None,
                                         registry_subpath |-> Some("WebAssembly"),
                                         auth |-> None]
            /\ (origin = "file" /\ "defaultNamespace" \notin DOMAIN Unwrap(doc)) =>
                  c.default_namespace = "wasi"
            /\ (origin = "file" /\ "defaultConfig" \notin DOMAIN Unwrap(doc)) =>
                  c.default_config = [registry |-> "ghcr.io", protocol |-> None,
                                      registry_subpath |-> Some("WebAssembly"),
                                      auth |-> None]

\* C8: saving a Config and loading the file back succeeds and yields a Config
\* equal to the original in defaultNamespace, defaultConfig and every
\* namespaces entry.
C8_RoundTrip ==
    origin = "roundtrip" =>
        /\ Unwrap(loaded).ok
        /\ Unwrap(loaded).value.default_namespace = cfg.default_namespace
        /\ Unwrap(loaded).value.default_config = cfg.default_config
        /\ DOMAIN Unwrap(loaded).value.namespaces = DOMAIN cfg.namespaces
        /\ \A k \in DOMAIN cfg.namespaces :
              Unwrap(loaded).value.namespaces[k] = cfg.namespaces[k]

C8_Witness ==
    /\ origin = "roundtrip"
    /\ DOMAIN cfg.namespaces # {}
    /\ IsSome(cfg.default_config.auth)
    /\ IsNone(cfg.default_config.protocol)
    /\ IsNone(cfg.default_config.registry_subpath)
    /\ cfg.default_namespace = ""
    /\ Unwrap(loaded).ok

\* C9: deps update succeeds whatever its -c and -d arguments are, and reads
\* no file, writes no file and makes no registry call.
C9_DepsUpdateNoOp ==
    argv.cmd = "deps" =>
        /\ reads = <<>>
        /\ writes = <<>>
        /\ net = <<>>
        /\ client = NoClient
        /\ ~Failed
        /\ pc = "done" => result = "ok"

C9_Witness ==
    /\ argv.cmd = "deps"
    /\ argv.config = Some("missing.toml")
    /\ argv.cache_dir = Some("missing")
    /\ pc = "done"
    /\ result = "ok"

\* C10: with neither --insecure nor WASM_PKG_INSECURE given, the host list
\* get_client sees is empty and the client is built with Https; HttpsExcept
\* is chosen only when the user supplied hosts, and then with exactly the
\* supplied comma-separated hosts.
C10_InsecureHosts ==
    client # NoClient =>
        /\ (IsNone(argv.common.insecureFlag) /\ IsNone(argv.common.insecureEnv)) =>
              /\ insecure = <<>>
              /\ client.protocol = "Https"
        /\ client.protocol = "HttpsExcept" =>
              /\ IsSome(argv.common.insecureFlag) \/ IsSome(argv.common.insecureEnv)
              /\ client.hosts = insecure

====
